---- MODULE Spec2Model ----
(***************************************************************************)
(* The machine runtime of packages/core/src/create-machine.ts.             *)
(*                                                                         *)
(* createMachine closes over state, context, props, listeners, running and *)
(* processing.  Guards, actions and listeners are user code that runs      *)
(* synchronously inside send / subscribe / syncProps and may call the      *)
(* machine again, so the model keeps the JavaScript call stack explicitly: *)
(* one frame per activation of send, subscribe, syncProps and of each      *)
(* handler.  What a handler does (the value it returns, whether it throws, *)
(* which machine operations it calls) is chosen nondeterministically.      *)
(***************************************************************************)
EXTENDS Integers, Sequences, FiniteSets, TLC

----------------------------------------------------------------------------
(* Bounds of the model *)

\* longest transition table of the configurations of DispatchSpec
MaxTrans == 2
\* machine calls that handlers may make inside one top-level call
MaxNested == 1

----------------------------------------------------------------------------
(* Values *)

States == {"green", "red"}
Wildcard == "*"
EventTypes == {"TOGGLE", "RESET"}
\* guard and action names a table may use; "" is an absent (falsy) name
GuardNames == {"", "canIncrement", "unknownGuard"}
ActionNames == {"", "increment", "unknownAction"}
\* an absent priority is <<>>, a present one is <<n>>
Priorities == {<<>>, <<-1>>, <<1>>}
\* the callbacks that get subscribed
Listeners == {"onChange", "onError"}

\* mappings handed to the machine: action results and syncProps arguments
ContextUpdates == {<<>>, [k \in {"count"} |-> 1]}
PropsUpdates == {[k \in {"maxCount"} |-> 1]}
\* the options of subscribe: none, { immediate: true }, { immediate: false }
SubscribeOptions == {<<>>, <<TRUE>>, <<FALSE>>}

\* what is thrown: new Error(`Guard "${name}" not found.`), new Error(`Action
\* "${name}" not found.`), or whatever a handler throws
ErrorKinds == {"GuardNotFound", "ActionNotFound", "HandlerError"}
\* what a write to a frozen object throws
TypeError == "TypeError"

\* MachineConfig: the fields of the configuration that send consults
initial == "green"
initialContext == [k \in {"count", "flag"} |-> 0]
initialProps == [k \in {"maxCount", "step"} |-> 0]
guards == {"canIncrement"}
actions == {"increment"}

MachineTransition ==
    [from : States \cup {Wildcard}, event : EventTypes, to : States,
     action : ActionNames, guard : GuardNames, priority : Priorities]

----------------------------------------------------------------------------
(* Helpers of the language and of @pistachiojs/core *)

\* { ...a, ...b } and merge(a, b): b's keys overwrite, a's other keys stay
merge(a, b) ==
    [k \in (DOMAIN a) \cup (DOMAIN b) |-> IF k \in DOMAIN b THEN b[k] ELSE a[k]]

\* priority ?? 0
priorityOf(t) == IF t.priority = <<>> THEN 0 ELSE t.priority[1]
\* (a, b) => (b.priority ?? 0) - (a.priority ?? 0)
compareAscending(a, b) == priorityOf(a) - priorityOf(b)
compare(a, b) == priorityOf(b) - priorityOf(a)

\* Set.prototype.delete on the insertion-ordered listener set
RECURSIVE without(_, _)
without(s, x) ==
    IF s = <<>> THEN <<>>
    ELSE IF Head(s) = x THEN Tail(s)
    ELSE <<Head(s)>> \o without(Tail(s), x)

indexOf(s, x) == IF \E i \in 1..Len(s) : s[i] = x
                 THEN CHOOSE i \in 1..Len(s) : s[i] = x
                 ELSE 0

has(s, x) == \E i \in 1..Len(s) : s[i] = x

----------------------------------------------------------------------------
(* State *)

VARIABLES
    transitions,   \* config.transitions, fixed at construction
    state,         \* let state
    context,       \* let context
    props,         \* let props
    listeners,     \* the listener Set, in insertion order
    running,       \* let running
    processing,    \* let processing
    unsubs,        \* listeners whose unsubscribe function has been returned
    stack,         \* the call stack, innermost frame last
    exc,           \* the error being thrown, NoError when none is
    phase,         \* "idle", "busy" (a top-level call is running), "returned"
    nested,        \* machine calls made by handlers in this top-level call
    last           \* history: the top-level call, and how it ended

vars == <<transitions, state, context, props, listeners, running, processing,
          unsubs, stack, exc, phase, nested, last>>

HandlerOps == {"guard", "action", "listener"}

NoSnapshot == [state |-> "", context |-> <<>>, props |-> <<>>]
Snapshot == [state |-> state, context |-> context, props |-> props]

\* An object that user code holds: the entries it has now, whether it is a
\* mapping of its own or the one the machine's variable refers to, and
\* whether it rejects writes.
\* { ...mapping }: a new object with the mapping's entries, open to writes
spread(mapping) == [value |-> mapping, copy |-> TRUE, frozen |-> FALSE]
\* freeze of @pistachiojs/core: the object rejects writes from now on
freeze(object) == [object EXCEPT !.frozen = TRUE]

\* getContext: return freeze({ ...context })
getContextLive == [value |-> context, copy |-> FALSE, frozen |-> FALSE]
getContext == freeze(spread(context))
\* getProps: return freeze({ ...props })
getProps == freeze(spread(props))

\* context = { ... } and props = merge(...) make the variable refer to a new
\* mapping: an object that was the old one is a mapping of its own from now on
replaced(frames, which) ==
    [k \in 1..Len(frames) |->
        IF frames[k].held = <<>> THEN frames[k]
        ELSE [frames[k] EXCEPT !.held[which].copy = TRUE]]

\* what a handler is called with: { context: getContext(), event, props:
\* getProps() }, and for a listener (state, getContext(), getProps())
handed == [context |-> getContext, props |-> getProps]

\* A stack frame; a field an activation does not use keeps its default.
\*   pc          where the activation is: send goes "filter", "action",
\*               "notify"; syncProps is at "notify"; the others at "run"
\*   event       send: event.type
\*   i           send in filter: the table index the callback is at;
\*               in notify: how many Set entries the iterator has passed
\*   matches     send: the table indices filter has kept
\*   transition  send: the table index of the winner, 0 before it is picked
\*   t           a guard's or action's table index
\*   x           a listener's identity
\*   result      send: what the action handler returned
\* and, as history of a send (no code reads them):
\*   pre         state, context and props when the dispatch began
\*   trues, falses   table indices whose guard returned true, false
\*   acted       table indices whose action handler was invoked, in order
\*   calls       <<handler kind, operation>> of the machine calls that
\*               handlers made while this dispatch was in progress
\*   heard       <<who invoked it, pc of this send>> of the listener
\*               invocations made while this dispatch was in progress
\*   owed        the listeners registered ever since this dispatch changed
\*               state and not invoked since
\* as history of a notification pass (a send or syncProps at "notify"):
\*   first       the listener Set when the pass began
\*   told        the listeners the pass has invoked, in order
\*   gone, came  the listeners deleted from, added to the Set during the pass
\* as history of a syncProps:
\*   pre         state, context and props when it was called
\*   result      <<newProps>>, its argument
\* A guard, action or listener has
\*   held        the context and props objects it was called with
\* and, as history,
\*   pre         the state, context and props when it was invoked
Frame(op) ==
    [op |-> op, pc |-> "run", event |-> "", i |-> 0, matches |-> <<>>,
     transition |-> 0, t |-> 0, x |-> "", result |-> <<>>, pre |-> NoSnapshot,
     trues |-> {}, falses |-> {}, acted |-> <<>>, calls |-> {}, heard |-> {},
     first |-> <<>>, told |-> <<>>, gone |-> {}, came |-> {}, held |-> <<>>,
     owed |-> {}]

NoCall == [op |-> "", how |-> "", frame |-> Frame("")]

\* exc: the error's kind and name and, as history, the innermost send it left
Error(kind, name) == [kind |-> kind, name |-> name, frame |-> Frame("")]
NoError == Error("none", "")
HandlerError == Error("HandlerError", "")

Top == stack[Len(stack)]
Pop == SubSeq(stack, 1, Len(stack) - 1)
\* the stack with its innermost frame replaced
Replace(f) == [stack EXCEPT ![Len(stack)] = f]

\* history: every send in progress in frames learns of a handler's call
called(frames, kind, op) ==
    [k \in 1..Len(frames) |->
        IF frames[k].op = "send"
        THEN [frames[k] EXCEPT !.calls = @ \cup {<<kind, op>>}]
        ELSE frames[k]]

\* history: every send in progress in frames learns of a listener invocation
\* by the frame at position by (its own notify loop when that is itself)
invoked(frames, by) ==
    [k \in 1..Len(frames) |->
        IF frames[k].op = "send"
        THEN [frames[k] EXCEPT !.heard = @ \cup
                 {<<IF k = by THEN "notify" ELSE frames[by].op, frames[k].pc>>}]
        ELSE frames[k]]

\* history: the dispatch in progress in frames learns that the listener x
\* was invoked, or is registered no more
settled(frames, x) ==
    [k \in 1..Len(frames) |->
        IF frames[k].op = "send"
        THEN [frames[k] EXCEPT !.owed = @ \ {x}]
        ELSE frames[k]]

----------------------------------------------------------------------------
(* Configurations *)

T(from, event, to, guard, action, priority) ==
    [from |-> from, event |-> event, to |-> to, action |-> action,
     guard |-> guard, priority |-> priority]

\* the tables of Spec: those of the test suite's guard, priority and
\* missing-handler cases, with a wildcard; RESET is the event none handles
Tables == {
    << T("green", "TOGGLE", "red", "canIncrement", "increment", <<1>>),
       T(Wildcard, "TOGGLE", "green", "", "increment", <<>>) >>,
    << T(Wildcard, "TOGGLE", "red", "canIncrement", "", <<>>),
       T("green", "TOGGLE", "green", "unknownGuard", "increment", <<-1>>) >>,
    << T("green", "TOGGLE", "red", "canIncrement", "unknownAction", <<>>),
       T("red", "TOGGLE", "green", "canIncrement", "increment", <<1>>) >>
}

\* the table of LatchSpec: a guarded way to red and a way back
LatchTables == {
    << T("green", "TOGGLE", "red", "canIncrement", "", <<>>),
       T("red", "RESET", "green", "", "", <<>>) >>
}

\* machine calls that the handlers of a configuration may make inside one
\* top-level call: one more in LatchSpec, whose callbacks call the machine
\* from inside a call that a handler made
Budget == IF transitions \in LatchTables THEN MaxNested + 1 ELSE MaxNested

Init ==
    /\ transitions \in Tables
    /\ state = initial
    /\ context = initialContext
    /\ props = initialProps
    /\ listeners = <<>>
    /\ running = FALSE
    /\ processing = FALSE
    /\ unsubs = {}
    /\ stack = <<>>
    /\ exc = NoError
    /\ phase = "idle"
    /\ nested = 0
    /\ last = NoCall

----------------------------------------------------------------------------
(* Who may call the machine: the program that owns it, when no call is     *)
(* running, or the handler that is executing                               *)

AtTopLevel == phase = "idle"
InHandler ==
    /\ phase = "busy"
    /\ exc = NoError
    /\ stack # <<>>
    /\ Top.op \in HandlerOps
    /\ nested < Budget
CanCall == AtTopLevel \/ InHandler

\* the stack as the call op finds it
Calling(op) == IF AtTopLevel THEN stack ELSE called(stack, Top.op, op)

\* bookkeeping of the call op that does how and leaves newStack
Enter(op, how, newStack) ==
    /\ nested' = IF AtTopLevel THEN 0 ELSE nested + 1
    /\ last' = IF AtTopLevel THEN [op |-> op, how |-> how, frame |-> Frame("")]
               ELSE last
    /\ stack' = newStack
    /\ phase' = IF newStack = <<>> THEN "returned" ELSE "busy"

\* bookkeeping of a step inside a running call
Step(newStack) ==
    /\ stack' = newStack
    /\ phase' = IF newStack = <<>> THEN "returned" ELSE "busy"
    /\ UNCHANGED nested

\* bookkeeping of a step that ends the innermost activation
Leave(how) ==
    /\ Step(Pop)
    /\ last' = IF Len(stack) = 1 THEN [last EXCEPT !.how = how, !.frame = Top]
               ELSE last

Running == phase = "busy" /\ stack # <<>>

\* Where an error thrown above frames arrives.  It leaves a send that is in
\* its try block and a subscribe; it arrives at notify's catch, or at the
\* handler that made the failing call.  left: the frames it leaves, innermost
\* first
RECURSIVE unwind(_)
unwind(frames) ==
    IF frames = <<>> THEN [stack |-> <<>>, caught |-> FALSE, left |-> <<>>]
    ELSE LET f == frames[Len(frames)] IN
         IF f.pc = "notify"
         THEN [stack |-> frames, caught |-> TRUE, left |-> <<>>]
         ELSE IF f.op \in HandlerOps
         THEN [stack |-> frames, caught |-> FALSE, left |-> <<>>]
         ELSE LET u == unwind(SubSeq(frames, 1, Len(frames) - 1))
              IN [u EXCEPT !.left = <<f>> \o @]

\* finally { processing = false }: what a send that ends leaves in processing
finallySkipped == processing
finally == FALSE

\* the error e is thrown above frames: send's finally clears processing
Throw(e, frames) ==
    LET u == unwind(frames)
        sends == SelectSeq(u.left, LAMBDA f : f.op = "send")
    IN /\ stack' = u.stack
       /\ exc' = IF sends # <<>> /\ e.frame.op = ""
                 THEN [e EXCEPT !.frame = sends[1]]
                 ELSE e
       /\ processing' = IF sends # <<>> THEN finally ELSE processing
       /\ phase' = IF u.stack = <<>> THEN "returned" ELSE "busy"
       /\ last' = IF u.stack = <<>>
                  THEN [last EXCEPT !.how = "throw", !.frame = u.left[Len(u.left)]]
                  ELSE last
       /\ UNCHANGED nested

----------------------------------------------------------------------------
(* start, stop *)

startAfresh ==
    /\ CanCall
    /\ running' = TRUE
    /\ state' = initial
    /\ context' = initialContext
    /\ Enter("start", "return", Calling("start"))
    /\ UNCHANGED <<transitions, props, listeners, processing, unsubs, exc>>
start ==
    /\ CanCall
    /\ running' = (IF running THEN running ELSE TRUE)
    /\ Enter("start", "return", Calling("start"))
    /\ UNCHANGED <<transitions, state, context, props, listeners, processing,
                   unsubs, exc>>

stop ==
    /\ CanCall
    /\ running' = (IF ~running THEN running ELSE FALSE)
    /\ Enter("stop", "return", Calling("stop"))
    /\ UNCHANGED <<transitions, state, context, props, listeners, processing,
                   unsubs, exc>>

----------------------------------------------------------------------------
(* send *)

\* if (!running) return
stoppedNever == FALSE
stopped == ~running
\* if (processing) return
latchedNever == FALSE
latched == processing
\* processing = true
latchForgotten == FALSE
latch == TRUE
send ==
    \E type \in EventTypes :
        /\ CanCall
        /\ IF stopped
           THEN /\ Enter("send", "discard", Calling("send"))
                /\ UNCHANGED processing
           ELSE IF latched
           THEN /\ Enter("send", "drop", Calling("send"))
                /\ UNCHANGED processing
           ELSE /\ processing' = latch
                /\ Enter("send", "dispatch",
                         Append(Calling("send"),
                                [Frame("send") EXCEPT
                                    !.pc = "filter", !.event = type, !.i = 1,
                                    !.pre = Snapshot]))
        /\ UNCHANGED <<transitions, state, context, props, listeners, running,
                       unsubs, exc>>

\* the filter callback's first line
appliesToAnyEvent(t, type) == t.from = Wildcard \/ t.from = state
appliesFromAnyState(t, type) == t.event = type
applies(t, type) ==
    ~(~(t.from = Wildcard \/ t.from = state) \/ ~(t.event = type))

\* const handler = config.guards?.[transition.guard]; if (!handler)
guardMissingIgnored(t) == FALSE
guardMissing(t) == t.guard \notin guards

\* one call of the filter callback, on transitions[i]
sendFilter ==
    /\ Running /\ exc = NoError
    /\ Top.op = "send" /\ Top.pc = "filter" /\ Top.i <= Len(transitions)
    /\ LET t == transitions[Top.i] IN
       IF ~applies(t, Top.event)
       THEN /\ Step(Replace([Top EXCEPT !.i = @ + 1]))
            /\ UNCHANGED <<exc, processing, last>>
       ELSE IF t.guard # ""
       THEN IF guardMissing(t)
            THEN Throw(Error("GuardNotFound", t.guard), stack)
            ELSE /\ Step(Append(stack, [Frame("guard") EXCEPT !.t = Top.i,
                                                           !.pre = Snapshot,
                                                           !.held = handed]))
                 /\ UNCHANGED <<exc, processing, last>>
       ELSE /\ Step(Replace([Top EXCEPT !.i = @ + 1,
                                        !.matches = Append(@, Top.i)]))
            /\ UNCHANGED <<exc, processing, last>>
    /\ UNCHANGED <<transitions, state, context, props, listeners, running,
                   unsubs>>

\* filter keeps the element for which its callback returned true
keptAlways(matches, i, keep) == Append(matches, i)
kept(matches, i, keep) == IF keep THEN Append(matches, i) ELSE matches

\* the guard handler returns what the filter callback returns
guardReturn ==
    \E keep \in BOOLEAN :
        /\ Running /\ exc = NoError
        /\ Top.op = "guard"
        /\ LET caller == stack[Len(stack) - 1] IN
           Step(Append(SubSeq(stack, 1, Len(stack) - 2),
                       [caller EXCEPT
                           !.i = @ + 1,
                           !.matches = kept(@, Top.t, keep),
                           !.trues = IF keep THEN @ \cup {Top.t} ELSE @,
                           !.falses = IF keep THEN @ ELSE @ \cup {Top.t}]))
        /\ UNCHANGED <<transitions, state, context, props, listeners, running,
                       processing, unsubs, exc, last>>

\* sort(matches, ...): a stable (insertion) sort of the kept table indices
RECURSIVE insert(_, _)
insert(x, s) ==
    IF s = <<>> THEN <<x>>
    ELSE IF compare(transitions[x], transitions[Head(s)]) <= 0 THEN <<x>> \o s
    ELSE <<Head(s)>> \o insert(x, Tail(s))

RECURSIVE sort(_)
sort(s) == IF s = <<>> THEN <<>> ELSE insert(Head(s), sort(Tail(s)))

\* sort(matches, ...)[0]
winner(matches) == sort(matches)[1]

\* state = transition.to
assignedLate(w) == state
assigned(w) == transitions[w].to

\* after filter: return on no match, else pick the winner and assign state
sendSelect ==
    /\ Running /\ exc = NoError
    /\ Top.op = "send" /\ Top.pc = "filter" /\ Top.i > Len(transitions)
    /\ IF Len(Top.matches) = 0
       THEN /\ processing' = finally
            /\ Leave("noMatch")
            /\ UNCHANGED state
       ELSE LET w == winner(Top.matches) IN
            /\ state' = assigned(w)
            /\ Step(Replace([Top EXCEPT
                                !.pc = "action", !.transition = w,
                                !.owed = IF assigned(w) # state
                                         THEN {listeners[n] : n \in DOMAIN listeners}
                                         ELSE @]))
            /\ UNCHANGED <<processing, last>>
    /\ UNCHANGED <<transitions, context, props, listeners, running, unsubs, exc>>

\* notify() is called: the for..of loop starts at the head of the Set
passSkipped(f) ==
    [f EXCEPT !.pc = "notify", !.i = Len(listeners), !.first = listeners]
passBegins(f) == [f EXCEPT !.pc = "notify", !.i = 0, !.first = listeners]

\* if (transition.action)
hasActionNever(t) == FALSE
hasAction(t) == t.action # ""

\* if (transition.action): look the handler up and call it
sendAction ==
    /\ Running /\ exc = NoError
    /\ Top.op = "send" /\ Top.pc = "action"
    /\ LET t == transitions[Top.transition] IN
       IF hasAction(t)
       THEN IF t.action \notin actions
            THEN Throw(Error("ActionNotFound", t.action), stack)
            ELSE /\ Step(Append(Replace([Top EXCEPT
                                            !.acted = Append(@, Top.transition)]),
                                [Frame("action") EXCEPT !.t = Top.transition,
                                                        !.pre = Snapshot,
                                                        !.held = handed]))
                 /\ UNCHANGED <<exc, processing, last>>
       ELSE /\ Step(Replace(passBegins(Top)))
            /\ UNCHANGED <<exc, processing, last>>
    /\ UNCHANGED <<transitions, state, context, props, listeners, running,
                   unsubs>>

\* what an action handler may return: nothing (<<>>) or a mapping (<<m>>)
ActionResults == {<<>>} \cup {<<u>> : u \in ContextUpdates}

\* if (result) context = { ...context, ...result }
applyResultAlone(result) == IF result # <<>> THEN result[1] ELSE context
applyResult(result) == IF result # <<>> THEN merge(context, result[1]) ELSE context

actionReturnIntoProps ==
    \E result \in ActionResults :
        /\ Running /\ exc = NoError
        /\ Top.op = "action"
        /\ props' = IF result # <<>> THEN merge(props, result[1]) ELSE props
        /\ LET caller == stack[Len(stack) - 1] IN
           Step(Append(SubSeq(stack, 1, Len(stack) - 2),
                       passBegins([caller EXCEPT !.result = result])))
        /\ UNCHANGED <<transitions, state, context, listeners, running,
                       processing, unsubs, exc, last>>
actionReturnUnmerged ==
    \E result \in ActionResults :
        /\ Running /\ exc = NoError
        /\ Top.op = "action"
        /\ LET caller == stack[Len(stack) - 1] IN
           Step(Append(SubSeq(stack, 1, Len(stack) - 2),
                       passBegins([caller EXCEPT !.result = result])))
        /\ UNCHANGED <<transitions, state, context, props, listeners, running,
                       processing, unsubs, exc, last>>
actionReturn ==
    \E result \in ActionResults :
        /\ Running /\ exc = NoError
        /\ Top.op = "action"
        /\ context' = applyResult(result)
        /\ LET caller == stack[Len(stack) - 1]
               frames == SubSeq(stack, 1, Len(stack) - 2)
           IN Step(Append(IF result # <<>> THEN replaced(frames, "context")
                          ELSE frames,
                          passBegins([caller EXCEPT !.result = result])))
        /\ UNCHANGED <<transitions, state, props, listeners, running,
                       processing, unsubs, exc, last>>

----------------------------------------------------------------------------
(* notify, subscribe, syncProps *)

\* one turn of notify's for..of loop, in the send or syncProps that runs it:
\* the Set iterator yields the entry after the i it has passed, if any
notify ==
    /\ Running /\ exc = NoError
    /\ Top.op \in {"send", "syncProps"} /\ Top.pc = "notify"
    /\ IF Top.i < Len(listeners)
       THEN /\ Step(Append(settled(invoked(Replace([Top EXCEPT
                                               !.i = @ + 1,
                                               !.told = Append(@, listeners[Top.i + 1])]),
                                           Len(stack)),
                                   listeners[Top.i + 1]),
                           [Frame("listener") EXCEPT !.x = listeners[Top.i + 1],
                                                     !.pre = Snapshot,
                                                     !.held = handed]))
            /\ UNCHANGED <<processing, last>>
       ELSE /\ Leave("done")
            /\ processing' = IF Top.op = "send" THEN finally ELSE processing
    /\ UNCHANGED <<transitions, state, context, props, listeners, running,
                   unsubs, exc>>

\* catch (error) { console.error('Listener error:', error) }: the error of a
\* listener ends in notify's loop, which goes on
notifyCatchEndsLoop ==
    /\ Running /\ exc # NoError
    /\ Top.op \in {"send", "syncProps"} /\ Top.pc = "notify"
    /\ exc' = NoError
    /\ Step(Replace([Top EXCEPT !.i = Len(listeners)]))
    /\ UNCHANGED <<transitions, state, context, props, listeners, running,
                   processing, unsubs, last>>
notifyCatch ==
    /\ Running /\ exc # NoError
    /\ Top.op \in {"send", "syncProps"} /\ Top.pc = "notify"
    /\ exc' = NoError
    /\ Step(stack)
    /\ UNCHANGED <<transitions, state, context, props, listeners, running,
                   processing, unsubs, last>>

\* a listener returns, to notify's loop or to the subscribe that called it
\* (which then returns the unsubscribe function)
listenerReturn ==
    /\ Running /\ exc = NoError
    /\ Top.op = "listener"
    /\ IF stack[Len(stack) - 1].op = "subscribe"
       THEN /\ Step(SubSeq(stack, 1, Len(stack) - 2))
            /\ unsubs' = unsubs \cup {Top.x}
       ELSE /\ Step(Pop)
            /\ UNCHANGED unsubs
    /\ UNCHANGED <<transitions, state, context, props, listeners, running,
                   processing, exc, last>>

\* listeners.add(listener)
add(s, x) == IF has(s, x) THEN s ELSE Append(s, x)

\* history: the passes in progress in frames learn that the Set gained x
joined(frames, x) ==
    [k \in 1..Len(frames) |->
        IF frames[k].pc = "notify" /\ ~has(listeners, x)
        THEN [frames[k] EXCEPT !.came = @ \cup {x}]
        ELSE frames[k]]

\* const { immediate = true } = options
immediateUnlessAsked(options) == options = <<TRUE>>
immediateOf(options) == IF options = <<>> THEN TRUE ELSE options[1]

\* The callbacks are named in the order the program first subscribes them.
subscribedBefore(listener) == listener \in unsubs \/ has(listeners, listener)
inNamingOrder(listener) ==
    listener = "onError" => subscribedBefore("onChange")

subscribeWith(listener, options) ==
        /\ CanCall
        /\ inNamingOrder(listener)
        /\ listeners' = add(listeners, listener)
        /\ IF immediateOf(options)
           THEN /\ LET frames == Append(joined(Calling("subscribe"), listener),
                                        [Frame("subscribe") EXCEPT !.x = listener])
                   IN Enter("subscribe", "immediate",
                            Append(settled(invoked(frames, Len(frames)), listener),
                                   [Frame("listener") EXCEPT !.x = listener,
                                                             !.pre = Snapshot,
                                                             !.held = handed]))
                /\ UNCHANGED unsubs
           ELSE /\ Enter("subscribe", "return",
                         joined(Calling("subscribe"), listener))
                /\ unsubs' = unsubs \cup {listener}
        /\ UNCHANGED <<transitions, state, context, props, running, processing,
                       exc>>

subscribe ==
    \E listener \in Listeners, options \in SubscribeOptions :
        subscribeWith(listener, options)

\* an iterator that has passed the deleted entry moves back with the Set
afterDeleteStays(frames, at) == frames
afterDelete(frames, at) ==
    [k \in 1..Len(frames) |->
        IF frames[k].pc = "notify" /\ at > 0 /\ frames[k].i >= at
        THEN [frames[k] EXCEPT !.i = @ - 1]
        ELSE frames[k]]

\* history: the passes in progress in frames learn that the Set lost x
left(frames, x) ==
    [k \in 1..Len(frames) |->
        IF frames[k].pc = "notify" /\ has(listeners, x)
        THEN [frames[k] EXCEPT !.gone = @ \cup {x}]
        ELSE frames[k]]

\* listeners.delete(listener)
deletedAll(s, x) == <<>>
deleted(s, x) == without(s, x)

\* the function subscribe returned: () => listeners.delete(listener)
unsubscribeOf(listener) ==
        /\ listener \in unsubs
        /\ CanCall
        /\ listeners' = deleted(listeners, listener)
        /\ Enter("unsubscribe", "return",
                 afterDelete(settled(left(Calling("unsubscribe"), listener),
                                     listener),
                             indexOf(listeners, listener)))
        /\ UNCHANGED <<transitions, state, context, props, running, processing,
                       unsubs, exc>>

unsubscribe == \E listener \in Listeners : unsubscribeOf(listener)

syncPropsSilent(newProps) ==
        /\ CanCall
        /\ props' = merge(props, newProps)
        /\ Enter("syncProps", "return", replaced(Calling("syncProps"), "props"))
        /\ UNCHANGED <<transitions, state, context, listeners, running,
                       processing, unsubs, exc>>
syncPropsLatched(newProps) ==
        /\ CanCall
        /\ props' = merge(props, newProps)
        /\ processing' = TRUE
        /\ Enter("syncProps", "notify",
                 Append(replaced(Calling("syncProps"), "props"),
                        passBegins([Frame("syncProps") EXCEPT
                                       !.pre = Snapshot,
                                       !.result = <<newProps>>])))
        /\ UNCHANGED <<transitions, state, context, listeners, running,
                       unsubs, exc>>
syncPropsWith(newProps) ==
        /\ CanCall
        /\ props' = merge(props, newProps)
        /\ Enter("syncProps", "notify",
                 Append(replaced(Calling("syncProps"), "props"),
                        passBegins([Frame("syncProps") EXCEPT
                                       !.pre = Snapshot,
                                       !.result = <<newProps>>])))
        /\ UNCHANGED <<transitions, state, context, listeners, running,
                       processing, unsubs, exc>>

syncProps == \E newProps \in PropsUpdates : syncPropsWith(newProps)

----------------------------------------------------------------------------
(* A handler ends by throwing, or by letting an error through *)

\* a guard, action or listener throws
handlerThrow ==
    /\ Running /\ exc = NoError
    /\ Top.op \in HandlerOps
    /\ Throw(HandlerError, Pop)
    /\ UNCHANGED <<transitions, state, context, props, listeners, running,
                   unsubs>>

\* a machine call made by a handler threw: the handler catches the error
\* and goes on, or lets it through
handlerCatch ==
    /\ Running /\ exc # NoError
    /\ Top.op \in HandlerOps
    /\ exc' = NoError
    /\ Step(stack)
    /\ UNCHANGED <<transitions, state, context, props, listeners, running,
                   processing, unsubs, last>>

handlerRethrow ==
    /\ Running /\ exc # NoError
    /\ Top.op \in HandlerOps
    /\ Throw(exc, Pop)
    /\ UNCHANGED <<transitions, state, context, props, listeners, running,
                   unsubs>>

----------------------------------------------------------------------------
(* A handler assigns to a key of the context or props it was called with,  *)
(* as in context.count = 10                                                *)

written(which, mapping) ==
    IF which = "context" THEN [mapping EXCEPT !["count"] = 10]
    ELSE [mapping EXCEPT !["maxCount"] = 10]

\* a frozen object throws; another one takes the value, and so does the
\* machine's variable when the object is the mapping it refers to
handlerWrites ==
    \E which \in {"context", "props"} :
        /\ Running /\ exc = NoError
        /\ Top.op \in HandlerOps
        /\ LET object == Top.held[which] IN
           IF object.frozen
           THEN /\ exc' = Error(TypeError, which)
                /\ Step(stack)
                /\ UNCHANGED <<context, props>>
           ELSE /\ Step(Replace([Top EXCEPT
                                    !.held[which].value = written(which, @)]))
                /\ context' = IF which = "context" /\ ~object.copy
                              THEN written(which, context) ELSE context
                /\ props' = IF which = "props" /\ ~object.copy
                            THEN written(which, props) ELSE props
                /\ UNCHANGED exc
        /\ UNCHANGED <<transitions, state, listeners, running, processing,
                       unsubs, last>>

----------------------------------------------------------------------------
(* The top-level call has returned or thrown: the program goes on *)

resume ==
    /\ phase = "returned"
    /\ phase' = "idle"
    /\ exc' = NoError
    /\ nested' = 0
    /\ last' = NoCall
    /\ UNCHANGED <<transitions, state, context, props, listeners, running,
                   processing, unsubs, stack>>

Next ==
    \/ start
    \/ stop
    \/ send
    \/ sendFilter
    \/ guardReturn
    \/ sendSelect
    \/ sendAction
    \/ actionReturn
    \/ notify
    \/ notifyCatch
    \/ listenerReturn
    \/ subscribe
    \/ unsubscribe
    \/ syncProps
    \/ handlerThrow
    \/ handlerCatch
    \/ handlerRethrow
    \/ resume

Spec == Init /\ [][Next]_vars

----------------------------------------------------------------------------
(* Dispatch alone, over tables of up to MaxTrans transitions without       *)
(* actions and with registered guards: the program starts the machine and  *)
(* sends events; guards return or throw and call nothing                   *)

\* what a transition of these tables is, but for its target
DispatchRules ==
    [from : {Wildcard, "green"}, event : EventTypes, guard : guards \cup {""},
     priority : Priorities]

RECURSIVE RulesOfLength(_)
RulesOfLength(n) ==
    IF n = 0 THEN {<<>>}
    ELSE {Append(rules, r) : rules \in RulesOfLength(n - 1), r \in DispatchRules}

\* the targets alternate, so that neighbours in a table lead to different states
TargetAt(k) == IF k % 2 = 1 THEN "red" ELSE "green"

DispatchTables ==
    {[k \in 1..Len(rules) |->
        T(rules[k].from, rules[k].event, TargetAt(k), rules[k].guard, "",
          rules[k].priority)] :
     rules \in UNION {RulesOfLength(n) : n \in 0..MaxTrans}}

DispatchInit ==
    /\ transitions \in DispatchTables
    /\ state = initial
    /\ context = initialContext
    /\ props = initialProps
    /\ listeners = <<>>
    /\ running = FALSE
    /\ processing = FALSE
    /\ unsubs = {}
    /\ stack = <<>>
    /\ exc = NoError
    /\ phase = "idle"
    /\ nested = 0
    /\ last = NoCall

programStarts == AtTopLevel /\ start
programSends == AtTopLevel /\ send

DispatchNext ==
    \/ programStarts
    \/ programSends
    \/ sendFilter
    \/ guardReturn
    \/ sendSelect
    \/ sendAction
    \/ notify
    \/ handlerThrow
    \/ resume

DispatchSpec == DispatchInit /\ [][DispatchNext]_vars

----------------------------------------------------------------------------
(* The whole machine over a table that names a state no transition leads   *)
(* to from the initial one, and one whose states are all reached           *)

ReachTables == {
    << T("red", "TOGGLE", "red", "", "increment", <<1>>),
       T("green", "TOGGLE", "green", "canIncrement", "increment", <<>>) >>,
    << T("red", "RESET", "green", "canIncrement", "", <<>>),
       T(Wildcard, "TOGGLE", "red", "", "increment", <<>>) >>
}

ReachInit ==
    /\ transitions \in ReachTables
    /\ state = initial
    /\ context = initialContext
    /\ props = initialProps
    /\ listeners = <<>>
    /\ running = FALSE
    /\ processing = FALSE
    /\ unsubs = {}
    /\ stack = <<>>
    /\ exc = NoError
    /\ phase = "idle"
    /\ nested = 0
    /\ last = NoCall

ReachSpec == ReachInit /\ [][Next]_vars

----------------------------------------------------------------------------
(* The whole machine with handlers that also write to what they were       *)
(* called with, over a table with a guard, an action and a way back        *)

SnapshotTables == {
    << T("green", "TOGGLE", "red", "canIncrement", "increment", <<>>),
       T("red", "TOGGLE", "green", "", "", <<>>) >>
}

SnapshotInit ==
    /\ transitions \in SnapshotTables
    /\ state = initial
    /\ context = initialContext
    /\ props = initialProps
    /\ listeners = <<>>
    /\ running = FALSE
    /\ processing = FALSE
    /\ unsubs = {}
    /\ stack = <<>>
    /\ exc = NoError
    /\ phase = "idle"
    /\ nested = 0
    /\ last = NoCall

SnapshotNext ==
    \/ start
    \/ stop
    \/ send
    \/ sendFilter
    \/ guardReturn
    \/ sendSelect
    \/ sendAction
    \/ actionReturn
    \/ notify
    \/ notifyCatch
    \/ listenerReturn
    \/ subscribe
    \/ unsubscribe
    \/ syncProps
    \/ handlerThrow
    \/ handlerWrites
    \/ handlerCatch
    \/ handlerRethrow
    \/ resume

SnapshotSpec == SnapshotInit /\ [][SnapshotNext]_vars

----------------------------------------------------------------------------
(* The machine whose handlers call it from inside a call that a handler    *)
(* made, with handlers that do not throw                                   *)

LatchInit ==
    /\ transitions \in LatchTables
    /\ state = initial
    /\ context = initialContext
    /\ props = initialProps
    /\ listeners = <<>>
    /\ running = FALSE
    /\ processing = FALSE
    /\ unsubs = {}
    /\ stack = <<>>
    /\ exc = NoError
    /\ phase = "idle"
    /\ nested = 0
    /\ last = NoCall

LatchNext ==
    \/ start
    \/ stop
    \/ send
    \/ sendFilter
    \/ guardReturn
    \/ sendSelect
    \/ sendAction
    \/ notify
    \/ listenerReturn
    \/ subscribe
    \/ unsubscribe
    \/ syncProps
    \/ resume

LatchSpec == LatchInit /\ [][LatchNext]_vars

----------------------------------------------------------------------------
(* What the claims read *)

\* the activations of send on the stack
Dispatches == {k \in DOMAIN stack : stack[k].op = "send"}

\* the old mapping with the keys of a returned mapping overwritten
Overwritten(old, new) ==
    [k \in (DOMAIN old) \cup (DOMAIN new) |->
        IF k \in DOMAIN new THEN new[k] ELSE old[k]]
\* the context a dispatch that began with old leaves when its action
\* returned result (<<>>: nothing, <<m>>: the mapping m)
ContextAfter(old, result) ==
    IF result = <<>> THEN old ELSE Overwritten(old, result[1])

Dropped(f, kind) == <<kind, "send">> \in f.calls

----------------------------------------------------------------------------
(* C1: a send made by an action handler while its own dispatch is in       *)
(* progress is dropped: the step pushes no activation and changes nothing  *)
(* of the machine, and the dispatch in progress goes on to its end with    *)
(* exactly its own action invoked, state at its winner's to and context at *)
(* the old context overwritten by its action's result.                     *)

C1_SendInAction ==
    /\ send
    /\ running /\ processing
    /\ phase = "busy" /\ Top.op = "action"

C1_OuterCompletes(f) ==
    /\ f.acted = <<f.transition>>
    /\ state = transitions[f.transition].to
    /\ context = ContextAfter(f.pre.context, f.result)

C1_DroppedInAction ==
    /\ [][C1_SendInAction =>
            /\ Len(stack') = Len(stack)
            /\ \A k \in DOMAIN stack :
                  /\ stack'[k].op = stack[k].op
                  /\ stack'[k].pc = stack[k].pc
                  /\ stack'[k].i = stack[k].i
                  /\ stack'[k].matches = stack[k].matches
                  /\ stack'[k].acted = stack[k].acted
                  /\ stack'[k].heard = stack[k].heard
                  /\ Dropped(stack'[k], "action") = (stack[k].op = "send")
            /\ UNCHANGED <<state, context, props, listeners, running,
                           processing, unsubs, exc>>]_vars
    /\ [](\A k \in Dispatches :
            Dropped(stack[k], "action") /\ stack[k].pc = "notify"
                => C1_OuterCompletes(stack[k]))
    /\ [](phase = "returned" /\ last.how = "done" /\ last.op = "send"
            /\ Dropped(last.frame, "action")
                => C1_OuterCompletes(last.frame) /\ ~processing)

C1_Witness ==
    /\ phase = "returned" /\ last.op = "send" /\ last.how = "done"
    /\ Dropped(last.frame, "action")
    /\ state # last.frame.pre.state
    /\ context # last.frame.pre.context

----------------------------------------------------------------------------
(* C2: at most one activation of send is past the latch at any time,       *)
(* whatever calls guards, actions and listeners make.                      *)

C2_OneDispatchInFlight == Cardinality(Dispatches) <= 1

C2_Witness ==
    \E k \in Dispatches :
        /\ Dropped(stack[k], "guard")
        /\ stack[Len(stack)].op = "guard"

----------------------------------------------------------------------------
(* C3: processing is true exactly while an activation of send is on the    *)
(* stack: it is false again when a top-level call has returned or thrown,  *)
(* however the dispatch ended, so a top-level send on a running machine is *)
(* never dropped; and a dropped send leaves it true for the dispatch in    *)
(* progress.                                                               *)

C3_LatchReleased ==
    /\ processing = (Dispatches # {})
    /\ phase \in {"idle", "returned"} => ~processing
    /\ phase = "returned" /\ last.op = "send" => last.how # "drop"

C3_Witness ==
    /\ phase = "returned" /\ last.op = "send" /\ last.how = "throw"
    /\ exc.kind = "HandlerError"
    /\ last.frame.pc = "action"
    /\ Dropped(last.frame, "action")

----------------------------------------------------------------------------
(* The candidates of a dispatch, from the table, the state and event it    *)
(* began with and what its guards returned                                 *)

Matches(t, s, type) == (t.from = Wildcard \/ t.from = s) /\ t.event = type

Candidates(f) ==
    {k \in DOMAIN transitions :
        /\ Matches(transitions[k], f.pre.state, f.event)
        /\ transitions[k].guard = "" \/ k \in f.trues}

PriorityOrZero(t) == IF t.priority = <<>> THEN 0 ELSE t.priority[1]

\* of the highest priority, and the first in the table of those
Best(c) ==
    CHOOSE k \in c :
        \A j \in c :
            \/ PriorityOrZero(transitions[k]) > PriorityOrZero(transitions[j])
            \/ /\ PriorityOrZero(transitions[k]) = PriorityOrZero(transitions[j])
               /\ k <= j

\* the dispatches there are to look at: those on the stack, the one an
\* error has left, and the one that ended the top-level call
Seen ==
    {stack[k] : k \in Dispatches}
        \cup (IF exc.frame.op = "send" THEN {exc.frame} ELSE {})
        \cup (IF last.frame.op = "send" THEN {last.frame} ELSE {})

\* filter has gone through the table
Filtered(f) == f.pc # "filter" \/ f.i > Len(transitions)

----------------------------------------------------------------------------
(* C4: the transition a dispatch applies is the candidate of the highest   *)
(* priority (an absent priority counting as 0), the first in table order   *)
(* among those of that priority; state is its target while the dispatch    *)
(* notifies and when it has returned.                                      *)

C4_WinnerIsBest ==
    \A f \in Seen :
        f.transition # 0 =>
            /\ Candidates(f) # {}
            /\ f.transition = Best(Candidates(f))
            /\ state = transitions[f.transition].to

C4_Witness ==
    /\ phase = "returned" /\ last.how = "done"
    /\ last.frame.transition = 2
    /\ 1 \in Candidates(last.frame)
    /\ 1 \in last.frame.trues
    /\ state = "green"

----------------------------------------------------------------------------
(* C5: a send made while running is false pushes no activation and changes *)
(* nothing of the machine; start changes running alone, so nothing sent    *)
(* while the machine was stopped is processed when it is started.          *)

C5_Untouched ==
    /\ Len(stack') = Len(stack)
    /\ \A k \in DOMAIN stack :
          /\ stack'[k].op = stack[k].op
          /\ stack'[k].pc = stack[k].pc
          /\ stack'[k].i = stack[k].i
          /\ stack'[k].acted = stack[k].acted
          /\ stack'[k].trues = stack[k].trues
          /\ stack'[k].falses = stack[k].falses
          /\ stack'[k].heard = stack[k].heard
    /\ UNCHANGED <<state, context, props, listeners, processing, unsubs, exc>>

C5_StoppedSendIgnored ==
    /\ [][send /\ ~running => C5_Untouched /\ ~running']_vars
    /\ [][start => C5_Untouched /\ running']_vars
    /\ [](phase = "returned" /\ last.how = "discard" => stack = <<>>)

C5_Witness ==
    /\ phase = "returned" /\ last.op = "send" /\ last.how = "discard"
    /\ ~running
    /\ state = "red"

----------------------------------------------------------------------------
(* More of what the claims read *)

\* the dispatches that are over: left by an error, or returned to the program
Over ==
    (IF exc.frame.op = "send" THEN {exc.frame} ELSE {})
        \cup (IF last.frame.op = "send" THEN {last.frame} ELSE {})

\* the matching transitions of a dispatch whose guard has no handler
MissingGuards(f) ==
    {k \in DOMAIN transitions :
        /\ Matches(transitions[k], f.pre.state, f.event)
        /\ transitions[k].guard \notin {"", "canIncrement"}}

First(c) == CHOOSE k \in c : \A j \in c : k <= j

\* the listener invocations a dispatch made in its own notification
OwnNotifications(f) == {h \in f.heard : h[1] = "notify"}

\* the operations that handlers called while the dispatch was in progress
Called(f) == {c[2] : c \in f.calls}

\* what the handlers' own calls to syncProps and subscribe account for
OnlyHandlersTouched(f) ==
    /\ "syncProps" \notin Called(f) => props = f.pre.props
    /\ Called(f) \cap {"syncProps", "subscribe"} = {} => f.heard = {}
    /\ \A h \in f.heard : h[1] \in Called(f) \cup {"notify"}

----------------------------------------------------------------------------
(* C6 as stated: whenever a matching transition names a guard without a    *)
(* handler, the dispatch ends with the error naming that guard, and state, *)
(* context and props are as before, no action ran, no listener was called. *)

C6_AsStated ==
    \A f \in Over : \A k \in MissingGuards(f) :
        /\ exc.kind = "GuardNotFound" /\ exc.name = transitions[k].guard
        /\ state = f.pre.state /\ context = f.pre.context /\ props = f.pre.props
        /\ f.acted = <<>>
        /\ f.heard = {}

(* C6, amended: a dispatch with a matching transition whose guard has no   *)
(* handler applies no transition, whatever the priorities: state and       *)
(* context stay as they were, no action runs, its own notification never   *)
(* runs, and it ends with an error: the one naming the first such guard,   *)
(* or the one a guard handler evaluated before it threw.  props change and *)
(* listeners are called only by the syncProps and subscribe calls that a   *)
(* guard handler evaluated before it makes itself.                         *)

C6_MissingGuardAborts ==
    \A f \in Seen :
        MissingGuards(f) # {} =>
            /\ f.pc = "filter" /\ f.transition = 0 /\ f.acted = <<>>
            /\ f.i <= First(MissingGuards(f))
            /\ state = f.pre.state /\ context = f.pre.context
            /\ OwnNotifications(f) = {}
            /\ OnlyHandlersTouched(f)
            /\ f \in Over =>
                  \/ /\ exc.kind = "GuardNotFound"
                     /\ exc.name = transitions[First(MissingGuards(f))].guard
                     /\ f.i = First(MissingGuards(f))
                  \/ /\ exc.kind = "HandlerError"
                     /\ f.i < First(MissingGuards(f))

C6_Witness ==
    /\ phase = "returned" /\ last.op = "send" /\ last.how = "throw"
    /\ exc.kind = "GuardNotFound" /\ exc.name = "unknownGuard"
    /\ 1 \in last.frame.trues
    /\ PriorityOrZero(transitions[2]) < PriorityOrZero(transitions[1])
    /\ listeners # <<>>

----------------------------------------------------------------------------
(* C7: a dispatch whose winner names an action without a handler ends with *)
(* the error naming that action, after state was set to the winner's       *)
(* target: state stays there, context is as before, no action and no       *)
(* notification of the dispatch runs.                                      *)

C7_MissingActionKeepsState ==
    \A f \in Seen :
        (f.transition # 0
            /\ transitions[f.transition].action \notin {"", "increment"}) =>
            /\ f.pc = "action" /\ f.acted = <<>>
            /\ state = transitions[f.transition].to
            /\ context = f.pre.context
            /\ OwnNotifications(f) = {}
            /\ f \in Over =>
                  /\ exc.kind = "ActionNotFound"
                  /\ exc.name = transitions[f.transition].action

C7_Witness ==
    /\ phase = "returned" /\ last.op = "send" /\ last.how = "throw"
    /\ exc.kind = "ActionNotFound" /\ exc.name = "unknownAction"
    /\ state = "red" /\ last.frame.pre.state = "green"
    /\ 1 \in last.frame.trues

----------------------------------------------------------------------------
(* C8 as stated: a dispatch whose filter ends with no candidate leaves     *)
(* state, context and props as they were, runs no action, and no listener  *)
(* is called.                                                              *)

C8_AsStated ==
    \A f \in Seen :
        Filtered(f) /\ Candidates(f) = {} =>
            /\ f.transition = 0 /\ f.acted = <<>>
            /\ state = f.pre.state /\ context = f.pre.context
            /\ props = f.pre.props
            /\ f.heard = {}

(* C8, amended: a dispatch whose filter ends with no candidate applies no  *)
(* transition: state and context stay as they were, no action runs and its *)
(* notification does not run.  props change and listeners are called only  *)
(* by the syncProps and subscribe calls that its guard handlers make       *)
(* themselves.                                                             *)

C8_NoCandidateNoEffect ==
    \A f \in Seen :
        Filtered(f) /\ Candidates(f) = {} =>
            /\ f.pc = "filter" /\ f.transition = 0 /\ f.acted = <<>>
            /\ state = f.pre.state /\ context = f.pre.context
            /\ OwnNotifications(f) = {}
            /\ OnlyHandlersTouched(f)
            /\ f \in Over => exc.kind = "none" /\ last.how = "noMatch"

C8_Witness ==
    /\ phase = "returned" /\ last.op = "send" /\ last.how = "noMatch"
    /\ last.frame.falses # {}
    /\ last.frame.calls = {}
    /\ listeners # <<>>
    /\ last.frame.heard = {}

----------------------------------------------------------------------------
(* C9: a transition whose guard returned false is not the one applied and  *)
(* no action is invoked for it; a dispatch invokes at most one action      *)
(* handler, for its winner.                                                *)

C9_RejectedNeverApplied ==
    /\ \A f \in Seen :
          /\ f.transition \notin f.falses
          /\ f.acted = <<>> \/ (f.transition # 0 /\ f.acted = <<f.transition>>)
          /\ \A k \in f.falses : ~has(f.acted, k)
    /\ \A k \in DOMAIN stack :
          stack[k].op = "action" =>
              /\ stack[k - 1].op = "send"
              /\ stack[k].t = stack[k - 1].transition
              /\ stack[k].t \notin stack[k - 1].falses

C9_Witness ==
    /\ phase = "returned" /\ last.op = "send" /\ last.how = "done"
    /\ 1 \in last.frame.falses
    /\ last.frame.acted = <<2>>
    /\ PriorityOrZero(transitions[1]) > PriorityOrZero(transitions[2])
    /\ transitions[1].action # ""

----------------------------------------------------------------------------
(* C10 as stated: every listener invocation during a dispatch comes after  *)
(* its action has ended: none happens while it filters or acts.            *)

C10_AsStated ==
    \A f \in Seen : \A h \in f.heard : h[2] = "notify"

(* C10, amended: in a dispatch every guard evaluation comes before the     *)
(* winner is picked and its action invoked, and the action has returned    *)
(* and its result is in context before the dispatch notifies any listener. *)
(* A listener is called while the dispatch filters or acts only by a       *)
(* syncProps or subscribe call that a guard or action handler makes.       *)

\* every guard the dispatch has to ask has answered
GuardsDone(f) ==
    \A k \in DOMAIN transitions :
        Matches(transitions[k], f.pre.state, f.event)
            /\ transitions[k].guard # ""
            => k \in f.trues \cup f.falses

C10_GuardsActionNotify ==
    /\ \A f \in Seen :
          /\ \A h \in f.heard :
                /\ h[1] = "notify" => h[2] = "notify"
                /\ h[2] # "notify" =>
                      /\ h[1] \in {"syncProps", "subscribe"}
                      /\ h[1] \in Called(f)
          /\ f.pc = "notify" =>
                /\ GuardsDone(f)
                /\ transitions[f.transition].action = ""
                      \/ f.acted = <<f.transition>>
                /\ context = ContextAfter(f.pre.context, f.result)
          /\ OwnNotifications(f) # {} => f.pc = "notify"
    /\ \A k \in DOMAIN stack :
          /\ stack[k].op = "guard" =>
                /\ stack[k - 1].op = "send" /\ stack[k - 1].pc = "filter"
                /\ stack[k - 1].transition = 0 /\ stack[k - 1].acted = <<>>
                /\ OwnNotifications(stack[k - 1]) = {}
          /\ stack[k].op = "action" =>
                /\ stack[k - 1].op = "send" /\ stack[k - 1].pc = "action"
                /\ GuardsDone(stack[k - 1])
                /\ OwnNotifications(stack[k - 1]) = {}

C10_Witness ==
    /\ stack # <<>> /\ Top.op = "listener"
    /\ Len(stack) >= 2
    /\ LET f == stack[Len(stack) - 1] IN
          /\ f.op = "send"
          /\ f.trues # {}
          /\ f.acted # <<>>
          /\ context # f.pre.context

----------------------------------------------------------------------------
(* C11: once the action of a dispatch has returned, and when the dispatch  *)
(* has ended, context has exactly the keys of the old context and of the   *)
(* returned mapping, the returned keys at the returned values and every    *)
(* other key at its old value; when the action returned nothing, context   *)
(* is the context from before the dispatch.                                *)

C11_ContextMerged ==
    \A f \in Seen :
        f.pc = "notify" /\ f.acted # <<>> =>
            IF f.result = <<>>
            THEN context = f.pre.context
            ELSE LET returned == f.result[1] IN
                 /\ DOMAIN context = (DOMAIN f.pre.context) \cup (DOMAIN returned)
                 /\ \A k \in DOMAIN context :
                       /\ k \in DOMAIN returned => context[k] = returned[k]
                       /\ k \notin DOMAIN returned => context[k] = f.pre.context[k]

C11_Witness ==
    /\ phase = "returned" /\ last.op = "send" /\ last.how = "done"
    /\ last.frame.acted # <<>>
    /\ last.frame.result # <<>> /\ "count" \in DOMAIN last.frame.result[1]
    /\ last.frame.pre.context["count"] = 0
    /\ context["count"] = 1
    /\ context["flag"] = last.frame.pre.context["flag"]

----------------------------------------------------------------------------
(* Notification passes *)

\* the passes there are to look at: those in progress and the one that
\* ended the top-level call
Passes ==
    {stack[k] : k \in {j \in DOMAIN stack : stack[j].pc = "notify"}}
        \cup (IF last.frame.pc = "notify" THEN {last.frame} ELSE {})

\* the step ends the innermost pass in progress
PassEnds ==
    /\ stack # <<>> /\ Top.pc = "notify" /\ exc = NoError
    /\ Len(stack') = Len(stack) - 1

\* the step is an invocation of a listener by the innermost pass in progress
PassInvokes ==
    /\ stack # <<>> /\ Top.pc = "notify" /\ exc = NoError
    /\ Len(stack') = Len(stack) + 1
    /\ stack'[Len(stack')].op = "listener"

Told(f) == {f.told[n] : n \in DOMAIN f.told}
AtStart(f) == {f.first[n] : n \in DOMAIN f.first}

\* every listener that was registered when the pass began and has not been
\* deleted since has been invoked by the pass
Delivered(f) == \A l \in AtStart(f) : l \notin f.gone => l \in Told(f)

\* an error has arrived at the catch of the innermost pass in progress
AtCatch == stack # <<>> /\ Top.pc = "notify" /\ exc # NoError

----------------------------------------------------------------------------
(* C12: the error of a listener invoked by a notification pass ends at the *)
(* pass: the catch leaves state, context, props, the listeners and the     *)
(* position of the loop as they are, so the pass goes on and ends only     *)
(* when every listener registered at its start and not deleted since has   *)
(* been invoked; an error never leaves a send in its notification, nor a   *)
(* syncProps.                                                              *)

C12_ListenerErrorCaught ==
    /\ [][AtCatch =>
            /\ exc' = NoError
            /\ stack' = stack
            /\ phase' = "busy"
            /\ state' = state /\ context' = context /\ props' = props
            /\ listeners' = listeners /\ running' = running
            /\ processing' = processing]_vars
    /\ [][PassEnds => Delivered(Top)]_vars
    /\ [](exc.frame.op # "" => exc.frame.op = "send" /\ exc.frame.pc # "notify")
    /\ [](last.how = "throw" =>
            /\ last.op \in {"send", "subscribe"}
            /\ last.frame.op \in {"send", "subscribe"}
            /\ last.frame.pc # "notify")
    /\ [](last.how = "done" /\ last.frame.pc = "notify" => Delivered(last.frame))

C12_Witness ==
    /\ AtCatch
    /\ exc.kind = "HandlerError"
    /\ Len(Top.told) = 1
    /\ Top.i < Len(listeners)
    /\ props # initialProps

----------------------------------------------------------------------------
(* C13: in a notification pass during which callbacks delete listeners     *)
(* and add none, the pass invokes only listeners that are registered at    *)
(* that moment (one deleted before its turn is not invoked), invokes no    *)
(* listener twice, and ends when every listener registered at its start    *)
(* and not deleted has been invoked.                                       *)

C13_Once(f) ==
    f.came = {} =>
        /\ \A m, n \in DOMAIN f.told : f.told[m] = f.told[n] => m = n
        /\ Told(f) \subseteq AtStart(f)

C13_UnsubscribeInPass ==
    /\ [](\A f \in Passes : C13_Once(f))
    /\ [][PassInvokes /\ Top.came = {} =>
            LET l == stack'[Len(stack')].x IN
            /\ has(listeners, l)
            /\ l \notin Top.gone
            /\ l \notin Told(Top)]_vars
    /\ [][PassEnds /\ Top.came = {} =>
            \A l \in AtStart(Top) : l \in Told(Top) \/ l \in Top.gone]_vars
    /\ [](\A f \in Passes : \A l \in f.gone : ~has(listeners, l) \/ l \in f.came)

C13_Witness ==
    /\ phase = "returned" /\ last.how = "done" /\ last.frame.pc = "notify"
    /\ Len(last.frame.first) = 2
    /\ last.frame.gone = {last.frame.first[1]}
    /\ last.frame.came = {}
    /\ last.frame.told = last.frame.first

----------------------------------------------------------------------------
(* C14: subscribe adds the listener to the Set whatever the options and    *)
(* whether the machine runs or not; with no options or immediate: true it  *)
(* calls the listener at once with the current state, context and props,   *)
(* and returns as soon as that one call ends; with immediate: false it     *)
(* calls nothing.                                                          *)

C14_Registered(l) ==
    listeners' = IF \E n \in DOMAIN listeners : listeners[n] = l
                 THEN listeners
                 ELSE Append(listeners, l)

C14_CalledAtOnce(l) ==
    /\ Len(stack') = Len(stack) + 2
    /\ stack'[Len(stack') - 1].op = "subscribe"
    /\ stack'[Len(stack')].op = "listener"
    /\ stack'[Len(stack')].x = l
    /\ stack'[Len(stack')].pre = [state |-> state, context |-> context,
                                  props |-> props]

C14_SubscribeImmediate ==
    /\ [][\A l \in Listeners, o \in SubscribeOptions :
            subscribeWith(l, o) =>
                /\ C14_Registered(l)
                /\ state' = state /\ context' = context /\ props' = props
                /\ running' = running
                /\ IF o = <<FALSE>>
                   THEN Len(stack') = Len(stack)
                   ELSE C14_CalledAtOnce(l)]_vars
    /\ [](\A k \in DOMAIN stack :
            stack[k].op = "subscribe" =>
                /\ k < Len(stack)
                /\ stack[k + 1].op = "listener"
                /\ stack[k + 1].x = stack[k].x)
    /\ [][(/\ Len(stack) >= 2
           /\ stack[Len(stack) - 1].op = "subscribe"
           /\ Len(stack') < Len(stack)) => Len(stack') <= Len(stack) - 2]_vars

C14_Witness ==
    /\ ~running
    /\ phase = "busy" /\ last.op = "subscribe" /\ last.how = "immediate"
    /\ Len(stack) = 2
    /\ stack[1].op = "subscribe" /\ stack[2].op = "listener"
    /\ stack[2].pre = Snapshot
    /\ props # initialProps
    /\ has(listeners, stack[2].x)

----------------------------------------------------------------------------
(* C15: the listener Set holds a callback once however often it was        *)
(* subscribed; an unsubscribe function deletes its listener and no other,  *)
(* keeps the order of the others, invokes nothing, and changes nothing     *)
(* when its listener is not in the Set; a notification pass invokes only   *)
(* listeners that are in the Set at that moment.                           *)

C15_Others(l) == SelectSeq(listeners, LAMBDA x : x # l)

C15_UnsubscribeExact ==
    /\ [][\A l \in Listeners :
            unsubscribeOf(l) =>
                /\ listeners' = C15_Others(l)
                /\ (\A n \in DOMAIN listeners : listeners[n] # l)
                       => listeners' = listeners
                /\ Len(stack') = Len(stack)
                /\ state' = state /\ context' = context /\ props' = props
                /\ running' = running]_vars
    /\ [](\A m, n \in DOMAIN listeners : listeners[m] = listeners[n] => m = n)
    /\ [][PassInvokes =>
            \E n \in DOMAIN listeners : listeners[n] = stack'[Len(stack')].x]_vars

C15_Witness ==
    /\ phase = "returned" /\ last.op = "unsubscribe"
    /\ listeners = <<"onError">>
    /\ unsubs = {"onChange", "onError"}

----------------------------------------------------------------------------
(* C16 as stated: when a syncProps call has returned, props is the props   *)
(* from before the call overwritten by the argument, state and context     *)
(* are as before the call, and every listener registered at the call has   *)
(* been invoked, unless it was deleted before its turn.                    *)

C16_AsStated ==
    phase = "returned" /\ last.op = "syncProps" =>
        /\ props = Overwritten(last.frame.pre.props, last.frame.result[1])
        /\ state = last.frame.pre.state
        /\ context = last.frame.pre.context
        /\ Delivered(last.frame)

(* C16, amended: syncProps, running or stopped, replaces props by the old  *)
(* props overwritten by the argument and changes nothing else itself, then *)
(* runs a notification pass that invokes each listener with the state,     *)
(* context and props current at that invocation and ends when every        *)
(* listener registered at its start and still registered has been invoked; *)
(* syncProps never throws.  When the listeners make no call to the machine *)
(* the pass invokes each registered listener once and state, context and   *)
(* the merged props are what the call leaves.                              *)

C16_SyncPropsMerges ==
    /\ [][\A newProps \in PropsUpdates :
            syncPropsWith(newProps) =>
                /\ props' = Overwritten(props, newProps)
                /\ state' = state /\ context' = context /\ running' = running
                /\ listeners' = listeners /\ processing' = processing
                /\ Len(stack') = Len(stack) + 1
                /\ stack'[Len(stack')].op = "syncProps"
                /\ stack'[Len(stack')].pc = "notify"
                /\ stack'[Len(stack')].told = <<>>
                /\ stack'[Len(stack')].first = listeners]_vars
    /\ [][PassInvokes =>
            stack'[Len(stack')].pre = [state |-> state, context |-> context,
                                       props |-> props]]_vars
    /\ [](phase = "returned" /\ last.op = "syncProps" =>
            /\ last.how = "done" /\ exc = NoError
            /\ last.frame.op = "syncProps" /\ last.frame.pc = "notify"
            /\ Delivered(last.frame)
            /\ nested = 0 =>
                  /\ props = Overwritten(last.frame.pre.props,
                                         last.frame.result[1])
                  /\ state = last.frame.pre.state
                  /\ context = last.frame.pre.context
                  /\ last.frame.told = last.frame.first
                  /\ last.frame.first = listeners)

C16_Witness ==
    /\ phase = "returned" /\ last.op = "syncProps"
    /\ ~running
    /\ nested = 0
    /\ Len(last.frame.told) = 2
    /\ props # last.frame.pre.props
    /\ state # initial

----------------------------------------------------------------------------
(* C17: only a call of syncProps changes props: no step of start, stop,    *)
(* send and its guards, action and notification, subscribe or unsubscribe  *)
(* does, so props is the initial props until syncProps is called.          *)

C17_PropsOnlyBySyncProps ==
    [][props' # props => \E newProps \in PropsUpdates : syncPropsWith(newProps)]_vars

C17_Witness ==
    /\ phase = "returned" /\ last.op = "send" /\ last.how = "done"
    /\ last.frame.result # <<>> /\ context # initialContext
    /\ last.frame.trues # {}
    /\ Len(last.frame.told) = 2
    /\ unsubs # {}
    /\ props = initialProps

----------------------------------------------------------------------------
(* C18: start sets running and stop clears it, whatever it was, and        *)
(* neither changes anything else: state, context, props, the listeners and *)
(* the latch stay, no activation begins and no handler is invoked; so a    *)
(* second start or stop in a row changes nothing.                          *)

C18_OnlyRunning ==
    /\ state' = state /\ context' = context /\ props' = props
    /\ listeners' = listeners /\ processing' = processing
    /\ Len(stack') = Len(stack)
    /\ \A k \in DOMAIN stack : stack'[k].op = stack[k].op /\ stack'[k].pc = stack[k].pc

C18_StartStopIdempotent ==
    /\ [][start => running' /\ C18_OnlyRunning]_vars
    /\ [][stop => ~running' /\ C18_OnlyRunning]_vars
    /\ [][running /\ start => running' = running]_vars
    /\ [][~running /\ stop => running' = running]_vars

C18_Witness ==
    /\ phase = "returned" /\ last.op = "start"
    /\ running
    /\ state # initial /\ context # initialContext
    /\ listeners # <<>>

----------------------------------------------------------------------------
(* C19: state is always the initial state or the target of a transition    *)
(* that can be reached from the initial state along the table, a wildcard  *)
(* leaving every state; and state changes only in the step of send that    *)
(* applies a transition leaving the current state, to that transition's    *)
(* target.                                                                 *)

\* the states reached from those of seen along the table
RECURSIVE ReachedFrom(_)
ReachedFrom(seen) ==
    LET more == {transitions[k].to :
                    k \in {j \in DOMAIN transitions :
                              \/ transitions[j].from = Wildcard
                              \/ transitions[j].from \in seen}}
    IN IF more \subseteq seen THEN seen ELSE ReachedFrom(seen \cup more)

C19_StateReachable ==
    /\ [](state \in ReachedFrom({initial}))
    /\ [][state' # state =>
            /\ stack # <<>> /\ Top.op = "send" /\ Top.pc = "filter"
            /\ \E k \in DOMAIN transitions :
                  /\ Matches(transitions[k], state, Top.event)
                  /\ state' = transitions[k].to]_vars

C19_Witness ==
    /\ "red" \notin ReachedFrom({initial})
    /\ \E k \in DOMAIN transitions : transitions[k].to = "red"
    /\ phase = "returned" /\ last.op = "send" /\ last.how = "done"
    /\ last.frame.event = "TOGGLE"
    /\ last.frame.acted # <<>>
    /\ Len(last.frame.told) = 2

----------------------------------------------------------------------------
(* C20: the context and props objects a guard, action or listener was      *)
(* called with (each made by getContext and getProps) hold the values of   *)
(* the moment they were made for as long as the handler runs, whatever     *)
(* send and syncProps have done since; an assignment to a key of one of    *)
(* them throws and changes neither the object nor the machine; and the     *)
(* machine's context changes only by an action's result being merged into  *)
(* it, its props only by syncProps' argument being merged into them.       *)

\* the handler activations on the stack
Holders == {k \in DOMAIN stack : stack[k].op \in HandlerOps}

C20_Kept(f) ==
    /\ f.held.context.value = f.pre.context
    /\ f.held.props.value = f.pre.props

C20_Rejected ==
    /\ exc'.kind = TypeError
    /\ stack' = stack
    /\ context' = context /\ props' = props /\ state' = state

C20_SnapshotsIndependent ==
    /\ [](\A k \in Holders : C20_Kept(stack[k]))
    /\ [][handlerWrites => C20_Rejected]_vars
    /\ [][context' # context =>
            /\ actionReturn
            /\ \E u \in ContextUpdates : context' = Overwritten(context, u)]_vars
    /\ [][props' # props =>
            \E newProps \in PropsUpdates :
                /\ syncPropsWith(newProps)
                /\ props' = Overwritten(props, newProps)]_vars

\* a listener called before a send changed state and context has assigned
\* to its context object, and the assignment threw
C20_Witness ==
    /\ stack # <<>> /\ Top.op = "listener"
    /\ exc.kind = TypeError /\ exc.name = "context"
    /\ Top.pre.state # state /\ Top.pre.context # context
    /\ C20_Kept(Top)

----------------------------------------------------------------------------
(* C21, as stated: whenever no operation is in progress, every listener    *)
(* registered ever since the most recent change of state has been invoked  *)
(* since.                                                                  *)

Registered == {listeners[n] : n \in DOMAIN listeners}

C21_AsStated ==
    phase = "returned" => \A f \in Over : f.owed = {}

(* C21, amended: a dispatch that changes state and returns has invoked,    *)
(* after the change and with the state it leaves, every listener that was  *)
(* registered at the change and has stayed so.  Listeners are left without *)
(* the new state only by a dispatch that ends in its action step, when the *)
(* action has no handler or the handler throws: state is then the          *)
(* winner's target and the dispatch notifies nobody.                       *)

\* the step invokes a listener
C21_Invokes ==
    /\ Len(stack') > Len(stack)
    /\ stack'[Len(stack')].op = "listener"

C21_ChangesAnnounced ==
    /\ [][state' # state =>
            /\ Top.op = "send"
            /\ stack'[Len(stack')].owed = Registered]_vars
    /\ [][C21_Invokes =>
            /\ stack'[Len(stack')].pre.state = state /\ state' = state
            /\ \A k \in DOMAIN stack' :
                  stack'[Len(stack')].x \notin stack'[k].owed]_vars
    /\ [][PassEnds /\ Top.op = "send" => Top.owed = {}]_vars
    /\ [](\A f \in Seen :
            /\ f.owed \subseteq Registered
            /\ f.owed # {} =>
                  /\ f.transition # 0
                  /\ state = transitions[f.transition].to
                  /\ state # f.pre.state)
    /\ [](\A f \in Over : f.owed # {} => f.pc = "action")
    /\ [](phase = "returned" /\ last.op = "send" /\ last.frame.owed # {} =>
            last.how = "throw")

\* a dispatch has changed state and returned, and both listeners have been
\* invoked with the new state
C21_Witness ==
    /\ phase = "returned" /\ last.op = "send" /\ last.how = "done"
    /\ state # last.frame.pre.state
    /\ Len(listeners) = 2
    /\ Told(last.frame) = Registered
    /\ last.frame.owed = {}

----------------------------------------------------------------------------
(* C22, as stated: a listener invoked while a dispatch is in progress is   *)
(* never given the winner's target state with the context of before the    *)
(* action, when these differ from the state of before the dispatch and     *)
(* from the context the action's result leaves.                            *)

C22_AsStated ==
    \A f \in Seen :
        f.pc = "notify" /\ (\E h \in f.heard : h[2] = "action") =>
            \/ transitions[f.transition].to = f.pre.state
            \/ ContextAfter(f.pre.context, f.result) = f.pre.context

(* C22, amended: a listener invoked while a dispatch is in progress is     *)
(* given the state and context of before the dispatch while the dispatch   *)
(* is filtering, and the winner's target state with the merged context     *)
(* when the dispatch's own notification invokes it; a listener invoked     *)
(* through a syncProps or subscribe call of the winner's action handler is *)
(* given the winner's target state with the context of before the action.  *)

\* what the listener activation at k was given, against the dispatch f
C22_Given(k, f) ==
    LET given == stack[k].pre
        to == transitions[f.transition].to
    IN /\ f.pc = "filter" =>
             given.state = f.pre.state /\ given.context = f.pre.context
       /\ f.pc = "action" =>
             given.state = to /\ given.context = f.pre.context
       /\ f.pc = "notify" =>
             /\ given.state = to
             /\ given.context = ContextAfter(f.pre.context, f.result)

C22_PairsDelivered ==
    \A k \in DOMAIN stack :
        stack[k].op = "listener" =>
            \A j \in Dispatches : j < k => C22_Given(k, stack[j])

\* a listener of the dispatch's own notification is given the new state
\* and the merged context, after the action handler had a listener invoked
C22_Witness ==
    /\ Len(stack) = 2
    /\ stack[1].op = "send" /\ stack[1].pc = "notify"
    /\ stack[2].op = "listener"
    /\ \E h \in stack[1].heard : h[2] = "action"
    /\ stack[2].pre.state # stack[1].pre.state
    /\ stack[2].pre.context # stack[1].pre.context
    /\ stack[2].pre.context = context

----------------------------------------------------------------------------
(* C23, as stated: a send that a listener makes on a running machine while *)
(* a notification of syncProps or subscribe's immediate call is invoking   *)
(* it is dispatched.                                                       *)

\* the step is a send by a listener that syncProps or subscribe invoked
C23_ListenerSends ==
    /\ send
    /\ running
    /\ stack # <<>> /\ Top.op = "listener"
    /\ stack[Len(stack) - 1].op \in {"syncProps", "subscribe"}

\* the step begins a dispatch
C23_Dispatched ==
    /\ Len(stack') = Len(stack) + 1
    /\ stack'[Len(stack')].op = "send" /\ stack'[Len(stack')].pc = "filter"
    /\ processing'

\* the step pushes no activation and leaves the machine as it is
C23_Ignored ==
    /\ Len(stack') = Len(stack)
    /\ \A k \in DOMAIN stack :
          stack'[k].op = stack[k].op /\ stack'[k].pc = stack[k].pc
    /\ UNCHANGED <<state, context, props, listeners, running, processing,
                   unsubs, exc>>

C23_AsStated == [][C23_ListenerSends => C23_Dispatched]_vars

(* C23, amended: processing is true exactly while an activation of send is *)
(* on the call stack, from its entry to the end of its notification.  A    *)
(* send on a running machine is ignored when a dispatch is in progress     *)
(* anywhere on the stack, also when the listener that makes it was invoked *)
(* by a syncProps or subscribe that a handler of that dispatch called; it  *)
(* is dispatched when no dispatch is in progress.  syncProps and subscribe *)
(* act whether a dispatch is in progress or not.                           *)

C23_LatchCoversSend ==
    /\ [](processing <=> Dispatches # {})
    /\ [][send /\ running /\ Dispatches # {} => C23_Ignored]_vars
    /\ [][send /\ running /\ Dispatches = {} => C23_Dispatched]_vars
    /\ [][\A newProps \in PropsUpdates :
            syncPropsWith(newProps) =>
                /\ props' = Overwritten(props, newProps)
                /\ stack'[Len(stack')].op = "syncProps"
                /\ processing' = processing]_vars
    /\ [][\A l \in Listeners, o \in SubscribeOptions :
            subscribeWith(l, o) =>
                /\ l \in Registered'
                /\ processing' = processing]_vars

\* a guard of a dispatch has called syncProps, and the listener that
\* syncProps invoked has called send on the running machine
C23_Witness ==
    /\ running /\ processing
    /\ Len(stack) = 4
    /\ stack[1].op = "send" /\ stack[2].op = "guard"
    /\ stack[3].op = "syncProps" /\ stack[4].op = "listener"
    /\ nested = 2
    /\ Dropped(stack[1], "listener")
    /\ state = stack[1].pre.state

----------------------------------------------------------------------------
(* C24, as stated: the notification pass of a dispatch whose handlers call *)
(* only subscribe and unsubscribe invokes no listener twice, and only      *)
(* listeners that were registered when the pass began.                     *)

\* the handlers of the dispatch f have called neither send nor syncProps
C24_Quiet(f) ==
    /\ f.op = "send"
    /\ Called(f) \subseteq {"subscribe", "unsubscribe"}

C24_Once(f) ==
    \A m, n \in DOMAIN f.told : m # n => f.told[m] # f.told[n]

C24_AsStated ==
    \A f \in Passes : C24_Quiet(f) => C24_Once(f) /\ Told(f) \subseteq AtStart(f)

====
